---------------------------- MODULE Spec2Model ----------------------------
(***************************************************************************)
(* A model of the numerical core of moist_thermodynamics/functions.py:     *)
(*   - the saturation partitioner (saturation_partition and the mixing-    *)
(*     ratio formula it is built on),                                      *)
(*   - the scalar root finder (invert_for_temperature, invert_for_pressure *)
(*     around scipy.optimize.newton in its secant form),                   *)
(*   - the LCL solver plcl (scipy.optimize.fsolve around an inner          *)
(*     temperature inversion),                                             *)
(*   - the moist-adiabat integrator moist_adiabat (scipy.integrate.ode     *)
(*     with the lsoda integrator, stepped in a while loop),                *)
(*   - the closed expressions es_mxd, plcl_bolton and the two mixing-ratio *)
(*     conversions,                                                        *)
(*   - the table of physical constants all of them read.                   *)
(*                                                                         *)
(* Numbers.  Python floats are modelled by exact rationals where the code  *)
(* is algebraic (the partitioner) and by fixed-point integers where it is  *)
(* iterative (the solvers).  The IEEE specials the code can produce (inf,  *)
(* nan) and the exception a plain-float division by zero raises are kept   *)
(* as separate kinds of value.                                             *)
(***************************************************************************)
EXTENDS Integers, Sequences, FiniteSets, TLC

VARIABLES
    part,   \* the partitioner call that was made last (arguments and results)
    hist,   \* the partitioner call made before it
    inv,    \* the root finder: the call in progress, its iterates and outcome
    ad,     \* the adiabat integrator: the call in progress and its trajectory
    lcl,    \* the LCL solver: the call in progress and its outcome
    fn,     \* the pure function evaluated last, its arguments and its values
    consts  \* the module constants: the table of physical constants

vars == <<part, hist, inv, ad, lcl, fn, consts>>

-----------------------------------------------------------------------------
(* Bounds of the model *)

MaxP == 3      \* direct partitioner calls draw P and ps from 0..MaxP
QDen == 4      \* total water qt is drawn from k/QDen, k in 0..QDen

-----------------------------------------------------------------------------
(* Extended rational values *)

Abs(x) == IF x < 0 THEN -x ELSE x

RECURSIVE GCD(_, _)
GCD(a, b) == IF b = 0 THEN a ELSE GCD(b, a % b)

\* A finite value n/d, kept in lowest terms with a positive denominator.
Fin(n, d) ==
    LET g == GCD(Abs(n), Abs(d))
        s == IF d < 0 THEN -1 ELSE 1
    IN  [k |-> "fin", n |-> (s * n) \div g, d |-> (s * d) \div g]

PInf == [k |-> "inf",  n |-> 0, d |-> 1]
NInf == [k |-> "ninf", n |-> 0, d |-> 1]
NaN  == [k |-> "nan",  n |-> 0, d |-> 1]
\* The value of an expression whose evaluation raised an exception.
Err  == [k |-> "err",  n |-> 0, d |-> 1]

IsFin(a) == a.k = "fin"
Sign(a) ==
    CASE a.k = "fin"  -> (IF a.n > 0 THEN 1 ELSE IF a.n < 0 THEN -1 ELSE 0)
      [] a.k = "inf"  -> 1
      [] a.k = "ninf" -> -1
      [] OTHER        -> 0

\* a * b in IEEE arithmetic (inf * 0 is nan); an exception propagates.
XMul(a, b) ==
    IF a.k = "err" \/ b.k = "err" THEN Err
    ELSE IF a.k = "nan" \/ b.k = "nan" THEN NaN
    ELSE IF IsFin(a) /\ IsFin(b)
         THEN LET g == GCD(Abs(a.n), b.d)
                  h == GCD(Abs(b.n), a.d)
              IN  Fin((a.n \div g) * (b.n \div h), (a.d \div h) * (b.d \div g))
    ELSE IF Sign(a) * Sign(b) = 0 THEN NaN
    ELSE IF Sign(a) * Sign(b) > 0 THEN PInf ELSE NInf

\* a - b for a finite a.
XSub(a, b) ==
    IF a.k = "err" \/ b.k = "err" THEN Err
    ELSE IF a.k = "nan" \/ b.k = "nan" THEN NaN
    ELSE IF IsFin(a) /\ IsFin(b) THEN Fin(a.n * b.d - b.n * a.d, a.d * b.d)
    ELSE IF b.k = "inf" THEN NInf ELSE PInf

\* a / b for finite a and b.  A zero divisor raises ZeroDivisionError when
\* both operands are plain Python floats and gives inf or nan (with a
\* RuntimeWarning) when one of them is a numpy float64.
XDiv(a, b, numpy) ==
    IF b.n # 0 THEN XMul(a, Fin(b.d, b.n))
    ELSE IF ~numpy THEN Err
    ELSE IF a.n > 0 THEN PInf
    ELSE IF a.n < 0 THEN NInf
    ELSE NaN

\* a <= b on values that are not nan and not err.
XLe(a, b) ==
    IF a.k = "ninf" \/ b.k = "inf" THEN TRUE
    ELSE IF a.k = "inf" \/ b.k = "ninf" THEN FALSE
    ELSE a.n * b.d <= b.n * a.d

XEq(a, b) == a.k = b.k /\ a.n * b.d = b.n * a.d

\* np.minimum: nan if either argument is nan.
np_minimum(a, b) ==
    IF a.k = "err" \/ b.k = "err" THEN Err
    ELSE IF a.k = "nan" \/ b.k = "nan" THEN NaN
    ELSE IF XLe(a, b) THEN a ELSE b

-----------------------------------------------------------------------------
(* The physical constants.                                                 *)
(*                                                                         *)
(* The functions read the attributes of the module constants each time     *)
(* they are called; the only state of the package that outlives a call is  *)
(* this table.  The values are surrogates in units in which they are small *)
(* integers: Rd / Rv is rd_over_rv.                                        *)

ConstantsTable == [Rd |-> 2, Rv |-> 3, cpd |-> 7, cpv |-> 13, cl |-> 29]

\* A function that rebinds an attribute of the table while it runs.
ConstantsRebound == consts' = [consts EXCEPT !.cpd = 0]

\* No function assigns to an attribute of constants: they are only read.
ConstantsOnlyRead == UNCHANGED consts

-----------------------------------------------------------------------------
(* The saturation partitioner *)

\* constants.rd_over_rv, the ratio of the gas constants of dry air and water
\* vapour, as a rational Eps1Num/Eps1Den.
Eps1Num == consts.Rd
Eps1Den == consts.Rv
eps1 == Fin(Eps1Num, Eps1Den)

\* A slip in the mixing-ratio formula: the ratio taken upside down.
mixing_ratio_inverted(pp, p, numpy) ==
    XDiv(XMul(eps1, Fin(p - pp, 1)), Fin(pp, 1), numpy)

\* partial_pressure_to_mixing_ratio(pp, p):  eps1 * pp / (p - pp)
partial_pressure_to_mixing_ratio(pp, p, numpy) ==
    XDiv(XMul(eps1, Fin(pp, 1)), Fin(p - pp, 1), numpy)

\* The first line of saturation_partition:
\*   qs = partial_pressure_to_mixing_ratio(ps, P) * (1.0 - qt)
\* with qt = k/QDen.
saturation_qs(P, ps, k, numpy) ==
    XMul(partial_pressure_to_mixing_ratio(ps, P, numpy), Fin(QDen - k, QDen))

\* A slip in the partitioner: the larger of qt and qs instead of the smaller.
saturation_partition_max(P, ps, k, numpy) ==
    LET qt == Fin(k, QDen)
        qs == saturation_qs(P, ps, k, numpy)
    IN  IF qs.k \in {"err", "nan"} THEN qs ELSE IF XLe(qt, qs) THEN qs ELSE qt

\* saturation_partition(P, ps, qt):  np.minimum(qt, qs)
saturation_partition(P, ps, k, numpy) ==
    np_minimum(Fin(k, QDen), saturation_qs(P, ps, k, numpy))

\* A slip in the condensate: qt - qs, whichever of qt and qs the vapour is.
phase_partition_qs(P, ps, k, numpy) ==
    [qv |-> saturation_partition(P, ps, k, numpy),
     qc |-> XSub(Fin(k, QDen), saturation_qs(P, ps, k, numpy)),
     qd |-> Fin(QDen - k, QDen)]

\* The phase partition as theta_l and moist_adiabat's derivative build it:
\*   qv = saturation_partition(P, es(T), qt);  qc = qt - qv;  qd = 1.0 - qt
phase_partition(P, ps, k, numpy) ==
    LET qv == saturation_partition(P, ps, k, numpy)
    IN  [qv |-> qv, qc |-> XSub(Fin(k, QDen), qv), qd |-> Fin(QDen - k, QDen)]

-----------------------------------------------------------------------------
(* Saturation vapour pressure curves, tabulated *)

\* Temperatures (kelvin) at which the partitioner is called through a curve.
TNodes == {250, 270, 290, 310}

\* saturation_vapor_pressures.liq_wagner_pruss at the nodes, rounded to hPa.
es_liq(T) == ((250 :> 1) @@ (270 :> 5) @@ (290 :> 19) @@ (310 :> 62))[T]

\* saturation_vapor_pressures.ice_wagner_etal at the nodes, rounded to hPa.
es_ice(T) == ((250 :> 1) @@ (270 :> 5) @@ (290 :> 23) @@ (310 :> 88))[T]

\* es_mxd:  np.minimum(es_liq(T), es_ice(T))
es_mxd(T) == IF es_liq(T) <= es_ice(T) THEN es_liq(T) ELSE es_ice(T)

EsNames == {"es_liq", "es_ice", "es_mxd"}

\* The curve a caller injects as the argument es.
es(name, T) ==
    CASE name = "es_liq" -> es_liq(T)
      [] name = "es_ice" -> es_ice(T)
      [] name = "es_mxd" -> es_mxd(T)

\* Pressures (hPa) of the calls made through a curve.
PNodes == {5, 20, 1000}

-----------------------------------------------------------------------------
(* Calls of the partitioner *)

NoCall ==
    [st |-> "idle", via |-> "none", es |-> "none", T |-> 0, P |-> 0, ps |-> 0,
     k |-> 0, numpy |-> FALSE, qs |-> NaN, qv |-> NaN, qc |-> NaN]

\* The outcome of one evaluation of the partition at (P, ps, qt = k/QDen):
\* the call returns unless the division raised.
PartitionCall(via, name, T, P, ps, k, numpy) ==
    LET pp == phase_partition(P, ps, k, numpy)
    IN  [st |-> IF pp.qv.k = "err" THEN "raised" ELSE "returned",
         via |-> via, es |-> name, T |-> T, P |-> P, ps |-> ps, k |-> k,
         numpy |-> numpy,
         qs |-> saturation_qs(P, ps, k, numpy),
         qv |-> pp.qv, qc |-> pp.qc]

\* A caller evaluates saturation_partition(P, ps, qt) on arguments of its own,
\* plain Python floats or numpy floats.
CallSaturationPartition ==
    /\ part.st = "idle"
    /\ \E P \in 0..MaxP, ps \in 0..MaxP, k \in 0..QDen, numpy \in BOOLEAN :
          part' = PartitionCall("direct", "none", 0, P, ps, k, numpy)
    /\ hist' = part

\* The partition as theta_e, theta_l, theta_s and moist_adiabat's derivative
\* evaluate it:  ps = es(TK);  qv = saturation_partition(PPa, ps, qt).
\* es returns a numpy float64.
CallPartitionAt ==
    /\ part.st = "idle"
    /\ \E name \in EsNames, T \in TNodes, P \in PNodes, k \in 0..QDen :
          part' = PartitionCall("es", name, T, P, es(name, T), k, TRUE)
    /\ hist' = part

\* The caller evaluates the partition again with another pressure and the
\* other arguments as before.
AgainWithPressure ==
    /\ part.st # "idle"
    /\ \E P \in (IF part.via = "es" THEN PNodes ELSE 0..MaxP) :
          part' = PartitionCall(part.via, part.es, part.T, P, part.ps, part.k,
                                part.numpy)
    /\ hist' = part

\* ... with another temperature, through the same curve.
AgainWithTemperature ==
    /\ part.via = "es"
    /\ \E T \in TNodes :
          part' = PartitionCall("es", part.es, T, part.P, es(part.es, T),
                                part.k, TRUE)
    /\ hist' = part

\* ... with another saturation vapour pressure.
AgainWithVapourPressure ==
    /\ part.via = "direct"
    /\ \E ps \in 0..MaxP :
          part' = PartitionCall("direct", "none", 0, part.P, ps, part.k,
                                part.numpy)
    /\ hist' = part

InitPart == part = NoCall /\ hist = NoCall

NextPart ==
    \/ CallSaturationPartition
    \/ CallPartitionAt
    \/ AgainWithPressure
    \/ AgainWithTemperature
    \/ AgainWithVapourPressure


-----------------------------------------------------------------------------
(* Claims about the partitioner *)

\* qt <= qs, for qs = eps1*ps/(P - ps)*(1 - qt) and P # ps, decided on integers:
\* both sides multiplied by Eps1Den*QDen*(P - ps), which turns the comparison
\* round when P < ps.
QtLeQs(c) ==
    LET a == c.k * Eps1Den * (c.P - c.ps)
        b == Eps1Num * c.ps * (QDen - c.k)
    IN  IF c.P > c.ps THEN a <= b ELSE a >= b

QtEqQs(c) == c.k * Eps1Den * (c.P - c.ps) = Eps1Num * c.ps * (QDen - c.k)

\* v = qt, for a finite v.
IsQt(v, c) == IsFin(v) /\ v.n * QDen = c.k * v.d

\* v = eps1*ps/(P - ps)*(1 - qt), for a finite v and P # ps.
IsQs(v, c) ==
    /\ IsFin(v)
    /\ v.n * Eps1Den * (c.P - c.ps) * QDen = Eps1Num * c.ps * (QDen - c.k) * v.d

\* C1: wherever qs = eps1*ps/(P - ps)*(1 - qt) is defined (P # ps), the call
\* returns, and what it returns is min(qt, qs): qt exactly when qt <= qs, qs
\* otherwise, and at qt = qs both.
C1_ReturnsMin ==
    (part.st # "idle" /\ part.P # part.ps) =>
        /\ part.st = "returned"
        /\ QtLeQs(part) <=> IsQt(part.qv, part)
        /\ ~QtLeQs(part) => IsQs(part.qv, part)
        /\ QtEqQs(part) => (IsQt(part.qv, part) /\ IsQs(part.qv, part))

\* A call at the crossover qt = qs with water in the air (qt > 0).
C1_Witness ==
    /\ part.st = "returned"
    /\ part.P > part.ps
    /\ part.k > 0
    /\ QtEqQs(part)

\* C2: in a valid state (0 <= qt < 1, P > ps > 0) the partition is made of
\* non-negative parts that add up to qt.
C2_PartitionNonNegative ==
    (part.st # "idle" /\ part.k < QDen /\ part.P > part.ps /\ part.ps > 0) =>
        /\ part.st = "returned"
        /\ IsFin(part.qv) /\ IsFin(part.qc)
        /\ part.qv.n >= 0
        /\ part.qc.n >= 0
        /\ IsQt(XSub(part.qv, Fin(-part.qc.n, part.qc.d)), part)

\* A valid saturated state: vapour and condensate both present.
C2_Witness ==
    /\ part.st = "returned"
    /\ part.k < QDen /\ part.P > part.ps /\ part.ps > 0
    /\ IsFin(part.qv) /\ part.qv.n > 0
    /\ IsFin(part.qc) /\ part.qc.n > 0

\* C3, as claimed: a call on a state that violates P > ps does not return a
\* value, it raises.
C3_InvalidStateSignalled ==
    (part.st # "idle" /\ part.P <= part.ps) => part.st = "raised"

\* Two successive evaluations that differ in one argument only.
SameButTemperature ==
    /\ hist.st = "returned" /\ part.st = "returned"
    /\ hist.via = "es" /\ part.via = "es" /\ hist.es = part.es
    /\ hist.P = part.P /\ hist.k = part.k

SameButVapourPressure ==
    /\ hist.st = "returned" /\ part.st = "returned"
    /\ hist.via = part.via /\ hist.numpy = part.numpy
    /\ hist.P = part.P /\ hist.k = part.k

SameButPressure ==
    /\ hist.st = "returned" /\ part.st = "returned"
    /\ hist.via = part.via /\ hist.numpy = part.numpy
    /\ hist.ps = part.ps /\ hist.k = part.k

\* C10: where P > es(T), the saturation specific humidity qs does not fall
\* when the temperature rises (P, qt fixed; the curves do not fall with T, so
\* neither does ps), and does not rise when the pressure rises (T, qt fixed).
C10_QsMonotone ==
    /\ (SameButTemperature /\ hist.T <= part.T /\ part.ps < part.P)
          => XLe(hist.qs, part.qs)
    /\ (SameButVapourPressure /\ hist.ps <= part.ps /\ part.ps < part.P)
          => XLe(hist.qs, part.qs)
    /\ (SameButPressure /\ hist.ps < hist.P /\ hist.P <= part.P)
          => XLe(part.qs, hist.qs)

\* Two evaluations through a curve at a lower and a higher temperature, below
\* saturation pressure, with a saturation humidity that did rise.
C10_Witness ==
    /\ SameButTemperature
    /\ hist.T < part.T
    /\ part.ps < part.P
    /\ ~XLe(part.qs, hist.qs)


-----------------------------------------------------------------------------
(* The root finder: invert_for_temperature and invert_for_pressure.        *)
(*                                                                         *)
(* Both hand a residual zero(x) = f_val - f(.., x, ..) to optimize.newton  *)
(* without a derivative, which is the secant iteration with the default    *)
(* tolerance and iteration budget.  Temperatures and the values of the     *)
(* theta functions are fixed-point numbers in hundredths of a kelvin,      *)
(* pressures are in pascal, qt is in thousandths.  nan is a value of its   *)
(* own: nothing compares equal to it and every operation on it gives nan.  *)

fnan == -1000000000

FSub(a, b) == IF a = fnan \/ b = fnan THEN fnan ELSE a - b

\* a / b rounded to the nearest integer (b # 0)
RDiv(a, b) ==
    IF b < 0 THEN ((-b) \div 2 - a) \div (-b) ELSE (a + b \div 2) \div b

ThetaNames == {"theta_e", "theta_l", "theta_s"}

\* The nodes of the tables: temperatures TabTLo, TabTLo + TabTStep, ...
\* and pressures TabPLo, TabPLo + TabPStep, ...
TabTLo   == -10000
TabTStep == 2500
TabPLo   == 0
TabPStep == 5000

\* f(T, P, qt) with es = es_liq at the temperature nodes, for the pressures
\* and total-water values the calls of the model use.  A node is nan where
\* the formula is: where es(T) > P makes the partitioner's qs negative
\* and a negative base is raised to a fractional power, and at T <= 0.
theta_table_T(f, P, qt) ==
    CASE f = "theta_e" /\ P = 500 /\ qt = 0 ->
           <<fnan, fnan, fnan, fnan, fnan, 11360, 22719, 34079, 45439, 56798, 68158, 79518, 90878, 102237, 113597, fnan, fnan, fnan, fnan, fnan, fnan>>
      [] f = "theta_e" /\ P = 500 /\ qt = 50 ->
           <<fnan, fnan, fnan, fnan, fnan, 8655, 17310, 25966, 34621, 43276, 51931, 60591, 69566, 85995, 139305, fnan, fnan, fnan, fnan, fnan, fnan>>
      [] f = "theta_e" /\ P = 100000 /\ qt = 0 ->
           <<fnan, fnan, fnan, fnan, fnan, 2500, 5000, 7500, 10000, 12500, 15000, 17500, 20000, 22500, 25000, 27500, 30000, 32500, 35000, fnan, fnan>>
      [] f = "theta_e" /\ P = 100000 /\ qt = 50 ->
           <<fnan, fnan, fnan, fnan, fnan, 2500, 5000, 7500, 10000, 12500, 15000, 17500, 20000, 22511, 25130, 28453, 35199, 45881, 49052, fnan, fnan>>
      [] f = "theta_l" /\ P = 500 /\ qt = 0 ->
           <<0, 0, 0, 0, fnan, 11360, 22719, 34079, 45439, 56798, 68158, 79518, 90878, 102237, 113597, fnan, fnan, fnan, fnan, fnan, fnan>>
      [] f = "theta_l" /\ P = 500 /\ qt = 50 ->
           <<fnan, fnan, fnan, fnan, 0, 62, 2452, 9967, 21852, 30250, 37194, 44220, 51586, 65294, 111566, fnan, fnan, fnan, fnan, fnan, fnan>>
      [] f = "theta_l" /\ P = 100000 /\ qt = 0 ->
           <<0, 0, 0, 0, fnan, 2500, 5000, 7500, 10000, 12500, 15000, 17500, 20000, 22500, 25000, 27500, 30000, 32500, 35000, fnan, fnan>>
      [] f = "theta_l" /\ P = 100000 /\ qt = 50 ->
           <<fnan, fnan, fnan, fnan, 0, 14, 549, 2233, 4902, 7613, 9366, 11134, 12923, 14740, 16657, 19120, 24215, 32500, 35000, fnan, fnan>>
      [] f = "theta_s" /\ P = 500 /\ qt = 0 ->
           <<fnan, fnan, fnan, fnan, fnan, 11360, 22719, 34079, 45439, 56798, 68158, 79518, 90878, 102237, 113597, fnan, fnan, fnan, fnan, fnan, fnan>>
      [] f = "theta_s" /\ P = 500 /\ qt = 50 ->
           <<fnan, fnan, fnan, fnan, fnan, 4174, 12241, 20982, 30021, 39275, 48720, 58353, 68524, 87614, 153176, fnan, fnan, fnan, fnan, fnan, fnan>>
      [] f = "theta_s" /\ P = 100000 /\ qt = 0 ->
           <<fnan, fnan, fnan, fnan, fnan, 2500, 5000, 7500, 10000, 12500, 15000, 17500, 20000, 22500, 25000, 27500, 30000, 32500, 35000, fnan, fnan>>
      [] f = "theta_s" /\ P = 100000 /\ qt = 50 ->
           <<fnan, fnan, fnan, fnan, fnan, 991, 2906, 4981, 7126, 9323, 11565, 13851, 16179, 18557, 21081, 24342, 31141, 42326, 45727, fnan, fnan>>
      [] f = "theta_l" /\ P = 80000 /\ qt = 0 ->
           <<0, 0, 0, 0, fnan, 2665, 5329, 7994, 10658, 13323, 15987, 18652, 21317, 23981, 26646, 29310, 31975, 34639, 37304, fnan, fnan>>
      [] f = "theta_l" /\ P = 80000 /\ qt = 17 ->
           <<fnan, fnan, fnan, fnan, 0, 429, 2443, 5191, 8238, 11089, 13422, 15762, 18112, 20484, 23012, 26516, 31966, 34630, 37294, fnan, fnan>>
      [] f = "theta_l" /\ P = 95000 /\ qt = 0 ->
           <<0, 0, 0, 0, fnan, 2537, 5074, 7611, 10148, 12685, 15221, 17758, 20295, 22832, 25369, 27906, 30443, 32980, 35517, fnan, fnan>>
      [] f = "theta_l" /\ P = 95000 /\ qt = 17 ->
           <<fnan, fnan, fnan, fnan, 0, 409, 2326, 4943, 7845, 10573, 12798, 15030, 17270, 19530, 21917, 25083, 30441, 32978, 35515, fnan, fnan>>
      [] f = "theta_l" /\ P = 100000 /\ qt = 17 ->
           <<fnan, fnan, fnan, fnan, 0, 403, 2292, 4872, 7732, 10424, 12618, 14818, 17027, 19254, 21601, 24676, 30000, 32500, 35000, fnan, fnan>>

\* f(T, P, qt) at the pressure nodes, for T = 300 K and qt = 0.017.
theta_table_P(f, T, qt) ==
    CASE f = "theta_e" /\ T = 30000 /\ qt = 17 ->
           <<fnan, 78390, 64833, 58017, 53621, 50441, 47984, 45999, 44347, 42939, 41717, 40642, 39685, 38824, 38044, 37332, 36678, 36073, 35513, 34991, 34503, 34045, 33613, 33207, 32822>>
      [] f = "theta_l" /\ T = 30000 /\ qt = 17 ->
           <<fnan, 70354, 57762, 51468, 47423, 44506, 42256, 40443, 38935, 37652, 36540, 35563, 34693, 33912, 33204, 32559, 31966, 31420, 30913, 30441, 30000, 29586, 29197, 28830, 28483>>
      [] f = "theta_s" /\ T = 30000 /\ qt = 17 ->
           <<fnan, 78498, 64264, 57165, 52610, 49328, 46799, 44762, 43070, 41630, 40383, 39287, 38313, 37438, 36645, 35923, 35260, 34648, 34081, 33553, 33060, 32598, 32163, 31753, 31365>>

\* The value of a tabulated function at x: linear between the two nodes
\* around x, nan when one of them is nan or x is outside the table.
Interp(tab, lo, step, x) ==
    IF x = fnan \/ x < lo \/ x >= lo + step * (Len(tab) - 1) THEN fnan
    ELSE LET i == (x - lo) \div step + 1
             a == tab[i]
             b == tab[i + 1]
         IN  IF a = fnan \/ b = fnan THEN fnan
             ELSE a + RDiv((b - a) * (x - (lo + (i - 1) * step)), step)

theta_at_T(f, T, P, qt) == Interp(theta_table_T(f, P, qt), TabTLo, TabTStep, T)
theta_at_P(f, T, P, qt) == Interp(theta_table_P(f, T, qt), TabPLo, TabPStep, P)


\* The iteration budget and the tolerance optimize.newton is left with: the
\* defaults maxiter = 50 and tol = 1.48e-8, which is below the resolution of
\* the fixed-point numbers.
maxiter == 50
tol == 0

NoInversion ==
    [st |-> "idle", kind |-> "none", f |-> "none", T |-> 0, P |-> 0, qt |-> 0,
     f_val |-> 0, src |-> fnan,
     p0 |-> fnan, p1 |-> fnan, q0 |-> fnan, q1 |-> fnan, itr |-> 0, p |-> fnan]

\* zero(x, f_val) of the call s: f_val - f(T, P, qt, es) with x for T or P
zero(s, x) ==
    FSub(s.f_val, IF s.kind = "T" THEN theta_at_T(s.f, x, s.P, s.qt)
                                  ELSE theta_at_P(s.f, s.T, x, s.qt))

\* The second starting point of the secant iteration: x0 * (1 + 1e-4) + 1e-4
second_guess(x0) == x0 + RDiv(x0, 10000)

\* optimize.newton up to its loop, started 20 units above the guess given
newton_start_elsewhere(c, x0) ==
    LET y0 == x0 + 2000
        y1 == second_guess(y0)
        r0 == zero(c, y0)
        r1 == zero(c, y1)
        swap == r0 # fnan /\ r1 # fnan /\ Abs(r1) < Abs(r0)
    IN  [c EXCEPT !.st = "run", !.itr = 0, !.p = fnan,
                  !.p0 = IF swap THEN y1 ELSE y0, !.q0 = IF swap THEN r1 ELSE r0,
                  !.p1 = IF swap THEN y0 ELSE y1, !.q1 = IF swap THEN r0 ELSE r1]

\* optimize.newton up to its loop: the residual at both starting points,
\* the better of the two as p1.
newton_start(c, x0) ==
    LET x1 == second_guess(x0)
        r0 == zero(c, x0)
        r1 == zero(c, x1)
        swap == r0 # fnan /\ r1 # fnan /\ Abs(r1) < Abs(r0)
    IN  [c EXCEPT !.st = "run", !.itr = 0, !.p = fnan,
                  !.p0 = IF swap THEN x1 ELSE x0, !.q0 = IF swap THEN r1 ELSE r0,
                  !.p1 = IF swap THEN x0 ELSE x1, !.q1 = IF swap THEN r0 ELSE r1]

\* The loop has used its budget, the value of the last iterate is handed back
newton_exhausted_returns(s) == [s EXCEPT !.st = "returned"]

\* The loop has used its budget: RuntimeError "Failed to converge after
\* maxiter iterations"
newton_exhausted(s) == [s EXCEPT !.st = "raised"]

\* One pass of the loop of optimize.newton, from a state with st = "run"
newton_step(s) ==
    LET flat == s.q0 # fnan /\ s.q1 # fnan /\ s.q1 = s.q0
        p == IF s.q0 = fnan \/ s.q1 = fnan \/ s.p0 = fnan \/ s.p1 = fnan
             THEN fnan
             ELSE s.p1 - RDiv(s.q1 * (s.p1 - s.p0), s.q1 - s.q0)
        n == s.itr + 1
    IN  IF flat
        THEN IF s.p1 # s.p0
             THEN [s EXCEPT !.st = "raised", !.itr = n, !.p = s.p1]
             ELSE [s EXCEPT !.st = "returned", !.itr = n, !.p = s.p1]
        ELSE IF p # fnan /\ s.p1 # fnan /\ Abs(p - s.p1) <= tol
        THEN [s EXCEPT !.st = "returned", !.itr = n, !.p = p]
        ELSE LET t == [s EXCEPT !.itr = n, !.p = p, !.p0 = s.p1, !.q0 = s.q1,
                                !.p1 = p, !.q1 = zero(s, p)]
             IN  IF n = maxiter THEN newton_exhausted(t) ELSE t

\* optimize.newton from start to end
RECURSIVE newton_run(_)
newton_run(s) == IF s.st = "run" THEN newton_run(newton_step(s)) ELSE s

\* The calls of the model.  Temperature inversions are made at the
\* pressures and total-water values of the tables, pressure inversions at
\* T = 300 K and qt = 0.017.
InvP == {500, 100000}
InvQt == {0, 50}
InvT == {20000, 22500, 25000, 27500, 30000, 32500}
InvPSrc == {40000, 60000, 80000, 100000}
Unreachable == -1000

T_guess == 28000
P_guess == 80000

\* invert_for_temperature(f, f_val, P, qt) is called.  f_val is either
\* f(T, P, qt) of a state (T, P, qt) with es(T) < P, which is kept in src, or
\* a value no temperature has.
InvertForTemperature ==
    /\ inv.st # "run"
    /\ \E f \in ThetaNames, P \in InvP, qt \in InvQt, T \in InvT \cup {fnan} :
         LET f_val == IF T = fnan THEN Unreachable ELSE theta_at_T(f, T, P, qt)
         IN  /\ f_val # fnan
             /\ inv' = newton_start([NoInversion EXCEPT !.kind = "T", !.f = f,
                           !.P = P, !.qt = qt, !.f_val = f_val, !.src = T], T_guess)

\* invert_for_pressure(f, f_val, T, qt) is called
InvertForPressure ==
    /\ inv.st # "run"
    /\ \E f \in ThetaNames, P \in InvPSrc \cup {fnan} :
         LET f_val == IF P = fnan THEN Unreachable ELSE theta_at_P(f, 30000, P, 17)
         IN  inv' = newton_start([NoInversion EXCEPT !.kind = "P", !.f = f,
                           !.T = 30000, !.qt = 17, !.f_val = f_val, !.src = P], P_guess)

\* optimize.newton makes a pass of its loop
NewtonIterate ==
    /\ inv.st = "run"
    /\ inv' = newton_step(inv)

InitInv == inv = NoInversion

NextInv == InvertForTemperature \/ InvertForPressure \/ NewtonIterate

-----------------------------------------------------------------------------
(* The moist-adiabat integrator: moist_adiabat.                            *)
(*                                                                         *)
(* Pressures are in hPa and temperatures in kelvin, at the nodes of the    *)
(* saturation vapour pressure tables.  The derivative f is computed in     *)
(* exact rational arithmetic with the IEEE specials of numpy floats.       *)

\* a + b in IEEE arithmetic (inf - inf is nan)
XAdd(a, b) ==
    IF a.k = "err" \/ b.k = "err" THEN Err
    ELSE IF a.k = "nan" \/ b.k = "nan" THEN NaN
    ELSE IF IsFin(a) /\ IsFin(b)
         THEN LET g == GCD(a.d, b.d)
              IN  Fin(a.n * (b.d \div g) + b.n * (a.d \div g), a.d * (b.d \div g))
    ELSE IF IsFin(a) THEN b
    ELSE IF IsFin(b) \/ a.k = b.k THEN a
    ELSE NaN

\* a / b between numpy floats (x/0 is inf or nan, inf/inf is nan)
XQuot(a, b) ==
    IF a.k = "err" \/ b.k = "err" THEN Err
    ELSE IF a.k = "nan" \/ b.k = "nan" THEN NaN
    ELSE IF IsFin(a) /\ IsFin(b) THEN XDiv(a, b, TRUE)
    ELSE IF IsFin(a) THEN Fin(0, 1)
    ELSE IF ~IsFin(b) THEN NaN
    ELSE IF Sign(a) * (IF b.n < 0 THEN -1 ELSE 1) > 0 THEN PInf ELSE NInf

\* The thermodynamic constants f reads, in units in which they are small
\* integers (Rd / Rv is eps1, the unit of temperature is 10 K).  cl is the
\* default of moist_adiabat's argument cc, bound when the module is loaded.
Rd  == Eps1Num
Rv  == Eps1Den
cpd == consts.cpd
cpv == consts.cpv
cl  == 29

\* The enthalpy of vaporization l(T), falling linearly with temperature
vaporization_enthalpy(T) ==
    ((250 :> 26) @@ (270 :> 25) @@ (290 :> 24) @@ (310 :> 23))[T]

\* A slip in the derivative: the Clausius-Clapeyron terms are applied
\* whether or not there is condensate.
f_always_corrected(P, T, k) ==
    IF T = fnan THEN NaN
    ELSE
    LET x  == phase_partition(P, es_liq(T), k, TRUE)
        lT == Fin(vaporization_enthalpy(T), 1)
        TK == Fin(T, 10)
        R   == XAdd(XMul(x.qd, Fin(Rd, 1)), XMul(x.qv, Fin(Rv, 1)))
        cp  == XAdd(XAdd(XMul(x.qd, Fin(cpd, 1)), XMul(x.qv, Fin(cpv, 1))),
                    XMul(x.qc, Fin(cl, 1)))
        vol == XQuot(XMul(R, TK), Fin(P, 1))
        beta_P == XQuot(R, XMul(x.qd, Fin(Rd, 1)))
        beta_T == XQuot(XMul(beta_P, lT), XMul(Fin(Rv, 1), TK))
    IN  XQuot(XMul(vol, XAdd(Fin(1, 1),
                  XQuot(XMul(XMul(lT, x.qv), beta_P), XMul(R, TK)))),
              XAdd(cp, XQuot(XMul(XMul(lT, x.qv), beta_T), TK)))

\* The derivative dT/dP the integrator is given, with cc = cl,
\* l = vaporization_enthalpy and es = es_liq.  T is a node or nan.
f(P, T, k) ==
    IF T = fnan THEN NaN
    ELSE
    LET x  == phase_partition(P, es_liq(T), k, TRUE)
        qv == x.qv
        qc == x.qc
        qd == x.qd
        lT == Fin(vaporization_enthalpy(T), 1)
        TK == Fin(T, 10)
        R   == XAdd(XMul(qd, Fin(Rd, 1)), XMul(qv, Fin(Rv, 1)))
        cp  == XAdd(XAdd(XMul(qd, Fin(cpd, 1)), XMul(qv, Fin(cpv, 1))),
                    XMul(qc, Fin(cl, 1)))
        vol == XQuot(XMul(R, TK), Fin(P, 1))
        beta_P == XQuot(R, XMul(qd, Fin(Rd, 1)))
        beta_T == XQuot(XMul(beta_P, lT), XMul(Fin(Rv, 1), TK))
        dX_dT == IF Sign(qc) > 0
                 THEN XAdd(cp, XQuot(XMul(XMul(lT, qv), beta_T), TK))
                 ELSE cp
        dX_dP == IF Sign(qc) > 0
                 THEN XMul(vol, XAdd(Fin(1, 1),
                          XQuot(XMul(XMul(lT, qv), beta_P), XMul(R, TK))))
                 ELSE vol
    IN  XQuot(dX_dP, dX_dT)

\* The calls of the model: from Pbeg = AdPbeg to one of the pressures
\* around it, in steps of two hPa up or down.
AdPbeg == 100
AdSpan == 6
AdPend == (AdPbeg - AdSpan)..(AdPbeg + 2)
AdDP == {-2, 2}
AdTbeg == {270, 290}
\* A call that never leaves its loop is followed for MaxSteps steps
MaxSteps == 4

NoAdiabat ==
    [st |-> "idle", Tbeg |-> 0, Pbeg |-> 0, Pend |-> 0, dP |-> 0, k |-> 0,
     t |-> 0, y |-> 0, success |-> TRUE, Tx |-> <<>>, Px |-> <<>>]

\* The temperature a step from the node T in the direction of the
\* derivative d * dP arrives at: the node itself or its neighbour.
step_temperatures(T, d, dP) ==
    LET up == Sign(d) * dP > 0
        T1 == IF up THEN T + 20 ELSE T - 20
    IN  {T} \cup (IF Sign(d) # 0 /\ T1 \in TNodes THEN {T1} ELSE {})

\* The successful step of r.integrate(target) is not made: the new time
\* is the old one.
integrate_stalled(s, target) ==
    {[success |-> TRUE, t |-> s.t, y |-> T1] :
        T1 \in step_temperatures(s.y, f(s.t, s.y, s.k), s.dP)}

\* r.integrate(target): the outcomes of one lsoda step from (s.t, s.y).
\* With a finite derivative the solver arrives at target with a new
\* temperature, or it gives up on the way (istate < 0).  With a derivative
\* that is not finite it either gives up, having made some or (from the
\* initial value) no progress, with the temperature it had or nan, or it
\* arrives with nan.  It never raises.
integrate(s, target) ==
    LET d   == f(s.t, s.y, s.k)
        mid == s.t + (target - s.t) \div 2
    IN  IF IsFin(d)
        THEN {[success |-> TRUE, t |-> target, y |-> T1] :
                 T1 \in step_temperatures(s.y, d, s.dP)}
             \cup {[success |-> FALSE, t |-> mid, y |-> s.y]}
        ELSE {[success |-> FALSE, t |-> tf, y |-> yf] :
                 tf \in {mid} \cup (IF s.Px = <<>> THEN {s.t} ELSE {}),
                 yf \in {s.y, fnan}}
             \cup {[success |-> TRUE, t |-> target, y |-> fnan]}

\* moist_adiabat(Tbeg, Pbeg, Pend, dP, qt) is called: up to the loop
CallMoistAdiabat ==
    /\ ad.st # "loop"
    /\ \E Tbeg \in AdTbeg, Pend \in AdPend, dP \in AdDP, k \in {0, 1, QDen} :
         ad' = [NoAdiabat EXCEPT !.st = "loop", !.Tbeg = Tbeg, !.Pbeg = AdPbeg,
                   !.Pend = Pend, !.dP = dP, !.k = k, !.t = AdPbeg, !.y = Tbeg]

\* A pass of the loop that keeps the values of the last step only
AdiabatStepEndpointOnly ==
    /\ ad.st = "loop"
    /\ ad.success /\ ad.t > ad.Pend
    /\ Len(ad.Px) < MaxSteps
    /\ \E r \in integrate(ad, ad.t + ad.dP) :
         ad' = [ad EXCEPT !.t = r.t, !.y = r.y, !.success = r.success,
                          !.Tx = <<r.y>>, !.Px = <<r.t>>]

\* A pass of the loop that records the point it starts from
AdiabatStepRecordsStart ==
    /\ ad.st = "loop"
    /\ ad.success /\ ad.t > ad.Pend
    /\ Len(ad.Px) < MaxSteps
    /\ \E r \in integrate(ad, ad.t + ad.dP) :
         ad' = [ad EXCEPT !.t = r.t, !.y = r.y, !.success = r.success,
                          !.Tx = Append(ad.Tx, ad.y), !.Px = Append(ad.Px, ad.t)]

\* One pass of the loop: while r.successful() and r.t > Pend
AdiabatStep ==
    /\ ad.st = "loop"
    /\ ad.success /\ ad.t > ad.Pend
    /\ Len(ad.Px) < MaxSteps
    /\ \E r \in integrate(ad, ad.t + ad.dP) :
         ad' = [ad EXCEPT !.t = r.t, !.y = r.y, !.success = r.success,
                          !.Tx = Append(ad.Tx, r.y), !.Px = Append(ad.Px, r.t)]

\* The loop condition is false: return np.asarray(Tx), np.asarray(Px)
AdiabatReturn ==
    /\ ad.st = "loop"
    /\ ~(ad.success /\ ad.t > ad.Pend)
    /\ ad' = [ad EXCEPT !.st = "returned"]

InitAd == ad = NoAdiabat

NextAd == CallMoistAdiabat \/ AdiabatStep \/ AdiabatReturn

-----------------------------------------------------------------------------
(* The LCL solver: plcl.                                                   *)
(*                                                                         *)
(* plcl computes Tl = theta_l(TK, PPa, qt) and hands the residual          *)
(* zero(P) = |qs / qt - 1| to optimize.fsolve with the starting point      *)
(* 80000 Pa; each evaluation of zero inverts theta_l for the temperature   *)
(* at the trial pressure.  fsolve (MINPACK hybrd) is followed through the  *)
(* points at which it evaluates zero and the way it ends: converged        *)
(* (ier = 1), or not (ier in 2..5), which it reports with a RuntimeWarning *)
(* only.  In both cases it returns its last iterate as an array of one     *)
(* element, and plcl returns what fsolve returns.                          *)

\* es_liq at the temperature nodes of the tables, in Pa
es_table ==
    <<fnan, fnan, fnan, fnan, fnan, 0, 0, 0, 0, 0, 0, 0, 0, 8, 95, 698, 3537, 13532, 41683, 108299, 245765>>

es_at(T) == Interp(es_table, TabTLo, TabTStep, T)

XAbs(a) ==
    IF a.k = "ninf" THEN PInf
    ELSE IF IsFin(a) THEN Fin(Abs(a.n), a.d) ELSE a

\* A slip in plcl.zero: qs is taken at the first guess of the inner
\* inversion instead of the temperature it has recovered.
plcl_zero_at_guess(P, Tl, qt) ==
    LET r  == newton_run(newton_start([NoInversion EXCEPT !.kind = "T",
                  !.f = "theta_l", !.P = P, !.qt = qt, !.f_val = Tl], T_guess))
        qs == XMul(partial_pressure_to_mixing_ratio(es_at(T_guess), P, TRUE),
                   Fin(1000 - qt, 1000))
    IN  IF r.st = "raised" THEN Err
        ELSE XAbs(XAdd(XQuot(qs, Fin(qt, 1000)), Fin(-1, 1)))

\* plcl.zero(P, Tl): the value is Err when invert_for_temperature raises
plcl_zero(P, Tl, qt) ==
    LET r  == newton_run(newton_start([NoInversion EXCEPT !.kind = "T",
                  !.f = "theta_l", !.P = P, !.qt = qt, !.f_val = Tl], T_guess))
        e  == es_at(r.p)
        qs == XMul(partial_pressure_to_mixing_ratio(e, P, TRUE),
                   Fin(1000 - qt, 1000))
    IN  IF r.st = "raised" THEN Err
        ELSE IF e = fnan THEN NaN
        ELSE XAbs(XAdd(XQuot(qs, Fin(qt, 1000)), Fin(-1, 1)))

\* The pressures at which fsolve evaluates zero, after the starting point
LclTrials == {80000, 95000, 100000}
LclTK == {27500, 30000, 32500}
LclPPa == 100000
LclQt == {0, 17}
\* The calls of the model: parcels near the surface, and a dry parcel at
\* 225 K and 500 Pa, whose theta_l no temperature reaches at 80000 Pa
LclCalls ==
    {<<TK, LclPPa, qt>> : TK \in LclTK, qt \in LclQt} \cup {<<22500, 500, 0>>}
\* The evaluations of zero followed in a call (fsolve allows 400)
MaxFev == 3

NoLcl ==
    [st |-> "idle", TK |-> 0, PPa |-> 0, qt |-> 0, Tl |-> fnan, x |-> 0,
     fvec |-> NaN, nfev |-> 0, ier |-> 0, warned |-> FALSE, shape |-> "none"]

\* fsolve returns: the last iterate as an array of one element, with a
\* RuntimeWarning when ier is not 1
fsolve_return(s, ier) ==
    [s EXCEPT !.st = "returned", !.ier = ier, !.warned = (ier # 1),
              !.shape = "array"]

\* plcl(TK, PPa, qt) is called: Tl is computed, fsolve starts at 80000 Pa
CallPlcl ==
    /\ lcl.st \in {"idle", "returned", "raised"}
    /\ \E c \in LclCalls :
         lcl' = [NoLcl EXCEPT !.st = "solve", !.TK = c[1], !.PPa = c[2],
                    !.qt = c[3], !.Tl = theta_at_T("theta_l", c[1], c[2], c[3]),
                    !.x = P_guess]

\* fsolve evaluates zero at its current point; an exception of the inner
\* inversion ends the call
FsolveEvaluate ==
    /\ lcl.st = "solve"
    /\ LET r == plcl_zero(lcl.x, lcl.Tl, lcl.qt)
       IN  lcl' = IF r.k = "err"
                  THEN [lcl EXCEPT !.st = "raised", !.nfev = lcl.nfev + 1]
                  ELSE [lcl EXCEPT !.st = "evaluated", !.fvec = r,
                                   !.nfev = lcl.nfev + 1]

\* fsolve moves to another point
FsolveIterate ==
    /\ lcl.st = "evaluated" /\ lcl.nfev < MaxFev
    /\ \E x \in LclTrials \ {lcl.x} : lcl' = [lcl EXCEPT !.st = "solve", !.x = x]

\* fsolve ends with ier = 1: its iterates have stopped moving
FsolveConverged ==
    /\ lcl.st = "evaluated" /\ IsFin(lcl.fvec)
    /\ lcl' = fsolve_return(lcl, 1)

\* fsolve ends without convergence: the budget of evaluations is used up
\* (ier = 2) or the iteration makes no progress (ier = 4, 5)
FsolveGivesUp ==
    /\ lcl.st = "evaluated"
    /\ \/ lcl.nfev = MaxFev /\ lcl' = fsolve_return(lcl, 2)
       \/ ~IsFin(lcl.fvec) /\ \E ier \in {4, 5} : lcl' = fsolve_return(lcl, ier)

InitLcl == lcl = NoLcl

NextLcl ==
    CallPlcl \/ FsolveEvaluate \/ FsolveIterate \/ FsolveConverged \/ FsolveGivesUp

-----------------------------------------------------------------------------
(* The saturation vapour pressure curves near the freezing point.          *)
(*                                                                         *)
(* Temperatures are in hundredths of a kelvin and pressures in thousandths *)
(* of a pascal, which separates the two curves between 273.15 K and the    *)
(* triple point 273.16 K.                                                  *)

EsT == {20000, 25000, 27000, 27300, 27314, 27315, 27316, 27317, 27320, 28000, 30000, 35000}

\* liq_wagner_pruss(T) at the temperatures EsT
liq_wagner_pruss(T) ==
    ((20000 :> 333) @@ (25000 :> 95404) @@ (27000 :> 484725)
     @@ (27300 :> 604584) @@ (27314 :> 610769) @@ (27315 :> 611213)
     @@ (27316 :> 611657) @@ (27317 :> 612102) @@ (27320 :> 613437)
     @@ (28000 :> 991759) @@ (30000 :> 3536718) @@ (35000 :> 41683068))[T]

\* ice_wagner_etal(T) at the temperatures EsT
ice_wagner_etal(T) ==
    ((20000 :> 163) @@ (25000 :> 76012) @@ (27000 :> 470060)
     @@ (27300 :> 603644) @@ (27314 :> 610648) @@ (27315 :> 611151)
     @@ (27316 :> 611655) @@ (27317 :> 612159) @@ (27320 :> 613673)
     @@ (28000 :> 1059505) @@ (30000 :> 4566010) @@ (35000 :> 83536437))[T]

\* es_mxd(T) = np.minimum(es_liq(T), es_ice(T)) on these curves
es_mxd_near_freezing(T) ==
    IF liq_wagner_pruss(T) <= ice_wagner_etal(T)
    THEN liq_wagner_pruss(T) ELSE ice_wagner_etal(T)

NoEval == [op |-> "none", T |-> 0, liq |-> 0, ice |-> 0, mxd |-> 0,
           p |-> 0, pp |-> NaN, r |-> NaN, back |-> NaN, qt |-> 0, plcl |-> 0]

\* es_liq(T), es_ice(T) and es_mxd(T) are evaluated
EvalSaturationCurves ==
    \E T \in EsT :
        fn' = [NoEval EXCEPT !.op = "es", !.T = T, !.liq = liq_wagner_pruss(T),
                  !.ice = ice_wagner_etal(T), !.mxd = es_mxd_near_freezing(T)]

MaxPress == 8  \* the round trips draw the pressure p from 1..MaxPress
MaxR == 4      \* and the mixing ratio r from n/d with n in 0..MaxR, d in 1..MaxR

\* partial_pressure_to_mixing_ratio(pp, p) for a partial pressure pp that is
\* not a whole number:  eps1 * pp / (p - pp)
partial_pressure_to_mixing_ratio_x(pp, p, numpy) ==
    XDiv(XMul(eps1, pp), XSub(Fin(p, 1), pp), numpy)

\* A slip in the inverse: the ratio of the gas constants is left out.
mixing_ratio_without_eps(r, p, numpy) ==
    XDiv(XMul(r, Fin(p, 1)), XAdd(Fin(1, 1), r), numpy)

\* mixing_ratio_to_partial_pressure(r, p):  r * p / (eps1 + r)
mixing_ratio_to_partial_pressure(r, p, numpy) ==
    XDiv(XMul(r, Fin(p, 1)), XAdd(eps1, r), numpy)

\* pp -> r -> pp at a pressure p > pp
RoundTripFromPartialPressure ==
    \E p \in 1..MaxPress : \E pp \in 0..(p - 1) :
        LET r == partial_pressure_to_mixing_ratio(pp, p, FALSE)
        IN  fn' = [NoEval EXCEPT !.op = "pp_r_pp", !.p = p, !.pp = Fin(pp, 1),
                      !.r = r,
                      !.back = mixing_ratio_to_partial_pressure(r, p, FALSE)]

\* r -> pp -> r for a mixing ratio r = n/d >= 0
RoundTripFromMixingRatio ==
    \E p \in 1..MaxPress : \E n \in 0..MaxR : \E d \in 1..MaxR :
        LET pp == mixing_ratio_to_partial_pressure(Fin(n, d), p, FALSE)
        IN  fn' = [NoEval EXCEPT !.op = "r_pp_r", !.p = p, !.r = Fin(n, d),
                      !.pp = pp,
                      !.back = partial_pressure_to_mixing_ratio_x(pp, p, FALSE)]

\* plcl_bolton(TK, PPa, qt), one closed expression, on the calls of plcl:
\* the pressure in Pa
plcl_bolton(TK, PPa, qt) ==
    (<<27500, 100000, 0>> :> 358 @@ <<27500, 100000, 17>> :> 136991
     @@ <<30000, 100000, 0>> :> 264 @@ <<30000, 100000, 17>> :> 93650
     @@ <<32500, 100000, 0>> :> 199 @@ <<32500, 100000, 17>> :> 66132
     @@ <<22500, 500, 0>> :> 4)[<<TK, PPa, qt>>]

\* plcl_bolton is called
CallPlclBolton ==
    \E c \in LclCalls :
        fn' = [NoEval EXCEPT !.op = "plcl_bolton", !.T = c[1], !.p = c[2],
                  !.qt = c[3], !.plcl = plcl_bolton(c[1], c[2], c[3])]

InitFn == fn = NoEval

NextFn ==
    \/ EvalSaturationCurves
    \/ RoundTripFromPartialPressure
    \/ RoundTripFromMixingRatio
    \/ CallPlclBolton

-----------------------------------------------------------------------------
(* Specifications, one for each component: the calls of one component      *)
(* leave the variables of the others alone.                                *)

InitConstants == consts = ConstantsTable

Init == InitConstants /\ InitPart /\ InitInv /\ InitAd /\ InitLcl /\ InitFn

SpecPart == Init /\ [][NextPart /\ UNCHANGED <<inv, ad, lcl, fn, consts>>]_vars

SpecInv == Init /\ [][NextInv /\ UNCHANGED <<part, hist, ad, lcl, fn, consts>>]_vars

SpecAd == Init /\ [][NextAd /\ UNCHANGED <<part, hist, inv, lcl, fn, consts>>]_vars

SpecLcl == Init /\ [][NextLcl /\ UNCHANGED <<part, hist, inv, ad, fn, consts>>]_vars

SpecFn == Init /\ [][NextFn /\ UNCHANGED <<part, hist, inv, ad, lcl, consts>>]_vars

\* Calls of all the operations in one program, running alongside each other:
\* a step of one call, then a step of any other.  Each operation is called
\* on a few of its arguments.
SpecCalls ==
    Init /\ [][/\ ConstantsOnlyRead
               /\ \/ /\ CallSaturationPartition \/ AgainWithVapourPressure
                     /\ part'.numpy /\ part'.P = MaxP /\ part'.k = 1
                     /\ part'.ps = 1
                     /\ UNCHANGED <<inv, ad, lcl, fn>>
                  \/ /\ NextInv
                     /\ inv'.f = "theta_l"
                     /\ inv'.kind = "T" =>
                            inv'.qt = 0 /\ inv'.P = 100000 /\ inv'.src = 30000
                     /\ inv'.kind = "P" => inv'.src = 100000
                     /\ UNCHANGED <<part, hist, ad, lcl, fn>>
                  \/ /\ NextAd
                     /\ ad'.Tbeg = 290 /\ ad'.dP = -2 /\ ad'.k = 1
                     /\ ad'.Pend = AdPbeg - 2
                     /\ UNCHANGED <<part, hist, inv, lcl, fn>>
                  \/ /\ NextLcl
                     /\ lcl'.TK = 30000 /\ lcl'.qt = 17
                     /\ lcl'.x \in {80000, 95000}
                     /\ UNCHANGED <<part, hist, inv, ad, fn>>
                  \/ /\ CallPlclBolton
                     /\ fn'.T = 30000 /\ fn'.qt = 17
                     /\ UNCHANGED <<part, hist, inv, ad, lcl>>]_vars

\* The two solvers in one program: calls of the root finder from outside
\* and calls of plcl, which runs it inside, one call at a time
SpecSolve ==
    Init /\ [][\/ /\ lcl.st \notin {"solve", "evaluated"}
                  /\ NextInv /\ UNCHANGED <<part, hist, ad, lcl, fn, consts>>
               \/ /\ inv.st # "run"
                  /\ NextLcl /\ UNCHANGED <<part, hist, inv, ad, fn, consts>>]_vars

-----------------------------------------------------------------------------
(* Claims about the root finder *)

\* C4: invert_for_temperature and invert_for_pressure never return an
\* iterate that has not converged.  The loop makes at most maxiter passes;
\* a call returns only on a pass whose new iterate is a number within the
\* tolerance of the iterate before it; and a call that has used its budget
\* without this has raised the convergence error: it is neither still
\* running nor returned.
C4_NeverReturnsUnconverged ==
    /\ [](/\ inv.itr <= maxiter
          /\ inv.st = "run" => inv.itr < maxiter
          /\ inv.st = "returned" => inv.p # fnan)
    /\ [][(inv.st = "run" /\ inv'.st = "returned") =>
             /\ inv.p1 # fnan /\ inv'.p # fnan
             /\ Abs(inv'.p - inv.p1) <= tol]_vars
    /\ [][(inv.st = "run" /\ inv'.itr = maxiter /\ inv'.st # "returned") =>
             inv'.st = "raised"]_vars

\* C4 witness: a call with a target no temperature has (-10 K) has ended in
\* the convergence error on the last pass the budget allows.
C4_Witness ==
    inv.st = "raised" /\ inv.itr = maxiter /\ inv.f_val = Unreachable

\* C9: for every valid state (T, P, qt) and each f, the temperature
\* inversion of f(T, P, qt) returns, and returns T (to within one unit of
\* the fixed-point temperatures).
C9_RoundTrip ==
    (inv.kind = "T" /\ inv.src # fnan /\ inv.st \in {"returned", "raised"}) =>
        (inv.st = "returned" /\ Abs(inv.p - inv.src) <= 1)

\* The starting point a call of kind "T" or "P" hands to optimize.newton
FixedGuess(kind) == IF kind = "T" THEN T_guess ELSE P_guess

\* C12: a call of invert_for_temperature or invert_for_pressure is one
\* solve from the fixed guess.  A solve starts at 280 K or 80000 Pa and the
\* second point derived from it; while it runs its arguments stay and its
\* pass count goes up by one, so it never starts again; a solve that has
\* raised is left only by a new call.  In plcl an evaluation of the residual
\* ends the call in the error exactly when the inner inversion at the trial
\* pressure raises, and fsolve has not produced a result then.
C12_SingleSolveFixedGuess ==
    /\ []((inv.st = "run" /\ inv.itr = 0) =>
             {inv.p0, inv.p1} =
                {FixedGuess(inv.kind), second_guess(FixedGuess(inv.kind))})
    /\ [][(inv.st = "run" /\ inv' # inv) =>
             /\ inv'.itr = inv.itr + 1
             /\ <<inv'.kind, inv'.f, inv'.f_val, inv'.T, inv'.P, inv'.qt>>
                   = <<inv.kind, inv.f, inv.f_val, inv.T, inv.P, inv.qt>>]_vars
    /\ [][(inv.st = "raised" /\ inv' # inv) =>
             (inv'.st = "run" /\ inv'.itr = 0)]_vars
    /\ [][(lcl.st = "solve" /\ lcl' # lcl) =>
             (plcl_zero(lcl.x, lcl.Tl, lcl.qt).k = "err" <=> lcl'.st = "raised")]_vars
    /\ [](lcl.st = "raised" =>
             (lcl.ier = 0 /\ plcl_zero(lcl.x, lcl.Tl, lcl.qt).k = "err"))

\* C12 witness: a temperature inversion from outside has raised after its
\* one solve, and a call of plcl has ended in the error of its inner
\* inversion at the first trial pressure.
C12_Witness ==
    /\ inv.st = "raised" /\ inv.kind = "T" /\ inv.src # fnan
    /\ lcl.st = "raised" /\ lcl.nfev = 1 /\ lcl.x = P_guess

-----------------------------------------------------------------------------
(* Claims about the moist-adiabat integrator *)

SignConsistent(c) ==
    \/ c.Pend < c.Pbeg /\ c.dP < 0
    \/ c.Pend > c.Pbeg /\ c.dP > 0

\* p is at Pend or past it, coming from Pbeg
AtOrPast(c, p) == IF c.Pend < c.Pbeg THEN p <= c.Pend ELSE p >= c.Pend

\* C5: a call with Pbeg # Pend and a step dP that points from Pbeg to
\* Pend, up or down, returns after at least one step; its pressures are
\* Pbeg + dP, Pbeg + 2 dP, ...; the last of them is the first at or past
\* Pend.
C5_StepsTowardPend ==
    (ad.st = "returned" /\ ad.Pbeg # ad.Pend /\ SignConsistent(ad)) =>
        /\ Len(ad.Px) >= 1
        /\ \A i \in 1..Len(ad.Px) :
              /\ ad.Px[i] = ad.Pbeg + i * ad.dP
              /\ AtOrPast(ad, ad.Px[i]) <=> i = Len(ad.Px)

\* C6: a call in which a step met a derivative that is not finite, or in
\* which the solver reported an unsuccessful step, does not return: what
\* is returned holds only values of successful steps, all of them numbers.
C6_FailedStepNotReturned ==
    ad.st = "returned" =>
        /\ ad.success
        /\ \A i \in 1..Len(ad.Tx) : ad.Tx[i] # fnan

C11_FullTrajectory ==
    /\ [](Len(ad.Tx) = Len(ad.Px))
    /\ [][(ad.st = "loop" /\ ad'.st = "loop") =>
             /\ ad'.Tx = Append(ad.Tx, ad'.y)
             /\ ad'.Px = Append(ad.Px, ad'.t)]_vars
    /\ [][(ad.st = "loop" /\ ad'.st = "returned") =>
             (ad'.Tx = ad.Tx /\ ad'.Px = ad.Px)]_vars

\* C11 witness: a returned trajectory of three pairs whose first and last
\* temperatures differ.
C11_Witness ==
    /\ ad.st = "returned" /\ Len(ad.Tx) = 3 /\ Len(ad.Px) = 3
    /\ ad.Tx[1] # fnan /\ ad.Tx[3] # fnan /\ ad.Tx[1] # ad.Tx[3]

\* ceil(a / b) for a >= 0 and b > 0
Ceil(a, b) == (a + b - 1) \div b

\* C17: a call with Pbeg > Pend and dP < 0 whose steps all succeed returns
\* after exactly ceil((Pbeg - Pend)/|dP|) steps; the k-th recorded pressure
\* is Pbeg + k*dP, so the starting point is not recorded; every pressure
\* but the last is above Pend, and the last is at or below Pend and above
\* Pend + dP.  A call with Pbeg <= Pend returns an empty trajectory.
C17_StepCountAndOvershoot ==
    /\ (ad.st = "returned" /\ ad.success /\ ad.Pbeg > ad.Pend /\ ad.dP < 0) =>
          /\ Len(ad.Px) = Ceil(ad.Pbeg - ad.Pend, -ad.dP)
          /\ Len(ad.Tx) = Len(ad.Px)
          /\ \A i \in 1..Len(ad.Px) :
                /\ ad.Px[i] = ad.Pbeg + i * ad.dP
                /\ i < Len(ad.Px) => ad.Px[i] > ad.Pend
          /\ ad.Px[Len(ad.Px)] <= ad.Pend
          /\ ad.Px[Len(ad.Px)] > ad.Pend + ad.dP
    /\ (ad.st = "returned" /\ ad.Pbeg <= ad.Pend) =>
          (ad.Tx = <<>> /\ ad.Px = <<>>)

\* A call down the adiabat has returned after three successful steps, the
\* last of them past Pend by less than a step.
C17_Witness ==
    /\ ad.st = "returned" /\ ad.success /\ ad.dP < 0
    /\ ad.Pbeg - ad.Pend = 5
    /\ ad.Px = <<ad.Pbeg - 2, ad.Pbeg - 4, ad.Pbeg - 6>>
    /\ ad.Tx[3] # fnan

-----------------------------------------------------------------------------
(* Claims about the LCL solver *)

\* C7: when the outer iteration of plcl does not converge the call ends in
\* a convergence error and returns nothing, and when it converges the call
\* returns a scalar pressure.
C7_OuterFailureRaises ==
    /\ lcl.st = "returned" => (lcl.ier = 1 /\ lcl.shape = "scalar")
    /\ lcl.ier \in 2..5 => lcl.st = "raised"

\* invert_for_temperature(theta_l, Tl, P, qt) as plcl's residual runs it
InnerInversion(P, Tl, qt) ==
    newton_run(newton_start([NoInversion EXCEPT !.kind = "T", !.f = "theta_l",
                                 !.P = P, !.qt = qt, !.f_val = Tl], T_guess))

\* |qs/qt - 1| with qs = partial_pressure_to_mixing_ratio(es(T), P)*(1 - qt)
Residual(T, P, qt) ==
    IF es_at(T) = fnan THEN NaN
    ELSE XAbs(XSub(XQuot(XMul(partial_pressure_to_mixing_ratio(es_at(T), P, TRUE),
                              Fin(1000 - qt, 1000)),
                         Fin(qt, 1000)),
                   Fin(1, 1)))

\* C16: plcl computes Tl once, from (TK, PPa, qt), before fsolve starts;
\* fsolve starts at 80000 Pa; each evaluation of the residual at a trial
\* pressure P runs one invert_for_temperature(theta_l, Tl, P, qt) with that
\* Tl and qt and gives |qs/qt - 1| at the recovered temperature and P.
C16_TlOnceThenInnerInversion ==
    /\ [](lcl.st # "idle" =>
             lcl.Tl = theta_at_T("theta_l", lcl.TK, lcl.PPa, lcl.qt))
    /\ [][(lcl.st \notin {"solve", "evaluated"} /\ lcl' # lcl) =>
             (lcl'.st = "solve" /\ lcl'.x = P_guess /\ lcl'.nfev = 0)]_vars
    /\ [][lcl.st \in {"solve", "evaluated"} =>
             /\ lcl'.Tl = lcl.Tl /\ lcl'.qt = lcl.qt
             /\ lcl'.TK = lcl.TK /\ lcl'.PPa = lcl.PPa]_vars
    /\ [][(lcl.st = "solve" /\ lcl' # lcl) =>
             LET r == InnerInversion(lcl.x, lcl.Tl, lcl.qt)
             IN  /\ lcl'.nfev = lcl.nfev + 1 /\ lcl'.x = lcl.x
                 /\ lcl'.st = (IF r.st = "raised" THEN "raised" ELSE "evaluated")
                 /\ lcl'.st = "evaluated" =>
                        lcl'.fvec = Residual(r.p, lcl.x, lcl.qt)]_vars

\* The residual has been evaluated a second time, at a trial pressure other
\* than the starting point, with an inner inversion that has recovered a
\* temperature other than its first guess.
C16_Witness ==
    /\ lcl.st = "evaluated" /\ lcl.nfev = 2 /\ lcl.x # P_guess
    /\ lcl.qt = 17 /\ IsFin(lcl.fvec)
    /\ InnerInversion(lcl.x, lcl.Tl, lcl.qt).st = "returned"
    /\ lcl.fvec # plcl_zero_at_guess(lcl.x, lcl.Tl, lcl.qt)

-----------------------------------------------------------------------------
(* Claims about the saturation vapour pressure curves and the mixing ratio *)

\* C13: es_mxd(T) is es_ice(T) for T < 273.15 K and es_liq(T) otherwise.
\* It fails from 273.15 K up to the triple point: the curves cross at about
\* 273.16035 K, so the minimum is still es_ice at 273.15 K and at 273.16 K.
C13_SwitchAtFreezingPoint ==
    fn.op = "es" => fn.mxd = (IF fn.T < 27315 THEN fn.ice ELSE fn.liq)

-----------------------------------------------------------------------------
(* Claims about the state the operations share *)

\* The arguments of the call of the root finder recorded in s
InversionArguments(s) ==
    [NoInversion EXCEPT !.kind = s.kind, !.f = s.f, !.T = s.T, !.P = s.P,
                        !.qt = s.qt, !.f_val = s.f_val, !.src = s.src]

\* The point the i-th pass of moist_adiabat's loop starts from
AdiabatFrom(i) ==
    IF i = 1 THEN [T |-> ad.Tbeg, P |-> ad.Pbeg]
    ELSE [T |-> ad.Tx[i - 1], P |-> ad.Px[i - 1]]

-----------------------------------------------------------------------------
(* Claims about the derivative of the moist adiabat *)

\* The integrator is about to evaluate the derivative at (ad.t, ad.y)
EvaluationPoint ==
    ad.st = "loop" /\ ad.success /\ ad.t > ad.Pend /\ ad.y # fnan

\* The quantities of the derivative at the point (P, T) with qt = k/QDen,
\* from the partition at that point
DerivativeTerms(P, T, k) ==
    LET qt == Fin(k, QDen)
        qs == saturation_qs(P, es_liq(T), k, TRUE)
        qv == IF XLe(qt, qs) THEN qt ELSE qs
        qc == XSub(qt, qv)
        qd == XSub(Fin(1, 1), qt)
        R  == XAdd(XMul(qd, Fin(Rd, 1)), XMul(qv, Fin(Rv, 1)))
        cp == XAdd(XAdd(XMul(qd, Fin(cpd, 1)), XMul(qv, Fin(cpv, 1))),
                   XMul(qc, Fin(cl, 1)))
        TK == Fin(T, 10)
        lT == Fin(vaporization_enthalpy(T), 1)
        beta_P == XQuot(R, XMul(qd, Fin(Rd, 1)))
        beta_T == XQuot(XMul(beta_P, lT), XMul(Fin(Rv, 1), TK))
    IN  [qt |-> qt, qs |-> qs, qv |-> qv, qc |-> qc,
         vol |-> XQuot(XMul(R, TK), Fin(P, 1)), cp |-> cp,
         dvol |-> XQuot(XMul(XMul(lT, qv), beta_P), XMul(R, TK)),
         dcp |-> XQuot(XMul(XMul(lT, qv), beta_T), TK)]

\* C15: at every point at which the derivative is evaluated the partition
\* is the one of the current T and P, and the Clausius-Clapeyron terms are
\* applied exactly when there is condensate (qc > 0, which is qt > qs):
\* without condensate the derivative is (R*T/P)/cp_eff, with it
\* (R*T/P)*(1 + l*qv*beta_P/(R*T)) / (cp_eff + l*qv*beta_T/T).
C15_DerivativeSwitchesAtSaturation ==
    EvaluationPoint =>
        LET d  == DerivativeTerms(ad.t, ad.y, ad.k)
            dT == f(ad.t, ad.y, ad.k)
        IN  /\ Sign(d.qc) >= 0
            /\ Sign(d.qc) > 0 <=> ~XLe(d.qt, d.qs)
            /\ Sign(d.qc) = 0 => dT = XQuot(d.vol, d.cp)
            /\ Sign(d.qc) > 0 =>
                   dT = XQuot(XMul(d.vol, XAdd(Fin(1, 1), d.dvol)),
                              XAdd(d.cp, d.dcp))

\* The form has switched along one adiabat: the parcel started saturated
\* and the derivative is now evaluated at a point without condensate, at
\* which the dry and the corrected form differ (qv > 0).
C15_Witness ==
    /\ EvaluationPoint /\ Len(ad.Tx) >= 1
    /\ Sign(DerivativeTerms(ad.Pbeg, ad.Tbeg, ad.k).qc) > 0
    /\ Sign(DerivativeTerms(ad.t, ad.y, ad.k).qc) = 0
    /\ Sign(DerivativeTerms(ad.t, ad.y, ad.k).qv) > 0
    /\ f(ad.t, ad.y, ad.k) # f_always_corrected(ad.t, ad.y, ad.k)

-----------------------------------------------------------------------------
(* Claims about the mixing ratio *)

\* C18: at a fixed pressure p > 0 the two conversions undo each other:
\* pp -> r -> pp gives pp back for 0 <= pp < p, and r -> pp -> r gives r
\* back for r >= 0.  The values are exact rationals: the rounding of the
\* floating-point operations is not part of the statement checked.
C18_MutualInverses ==
    /\ fn.op = "pp_r_pp" =>
          (IsFin(fn.r) /\ Sign(fn.r) >= 0 /\ fn.back = fn.pp)
    /\ fn.op = "r_pp_r" =>
          (IsFin(fn.pp) /\ Sign(fn.pp) >= 0 /\ XLe(fn.pp, Fin(fn.p, 1))
           /\ fn.back = fn.r)

\* A mixing ratio that is not a whole number has been taken to a partial
\* pressure that is not a whole number and back.
C18_Witness ==
    /\ fn.op = "r_pp_r" /\ fn.p = 5
    /\ fn.r = Fin(3, 4) /\ fn.pp.d # 1 /\ fn.back = Fin(3, 4)

=============================================================================
